---- MODULE Spec2Model ----
(***************************************************************************)
(* A model of the web_automation core:                                     *)
(*   actions/base_action.py        BaseAction.perform (bounded retry)      *)
(*   healing/healing_strategies.py HealingStrategies.try_alternatives      *)
(*   healing/locator_manager.py    LocatorManager (selector registry)      *)
(*   generators/recorder.py        Recorder (list of recorded actions)     *)
(*   actions/click.py, type.py     ClickAction, TypeAction (page calls)    *)
(* and of one LocatorManager called from two streams at once.              *)
(***************************************************************************)
EXTENDS Integers, Sequences, FiniteSets, TLC

(***************************************************************************)
(* Bounds of the model.                                                    *)
(***************************************************************************)
MaxRetryCount == 4
MaxDelay == 2
MaxAlternatives == 3
MaxRecorded == 3
MaxCandidates == 2
MaxStreamAlternatives == 1
MaxPageCalls == 6

\* Config() defaults
DefaultRetryCount == 3
DefaultRetryDelay == 1

(***************************************************************************)
(* Values.                                                                 *)
(***************************************************************************)
None == "None"
NoReturn == "NoReturn"
NoException == [type |-> "NoException"]
Selectors == {"#a", "#b", "#c"}
Names == {"submit", "username"}

\* what one call of _perform does: raise an Exception, or return a value
\* (ClickAction and TypeAction return None, the test actions return "success")
Raises == "raises"
ReturnValues == {None, "success"}

\* _perform may also raise an exception that is no Exception, such as
\* KeyboardInterrupt or SystemExit: "except Exception" does not catch it
RaisesBaseException == "raises BaseException"
Outcomes == {Raises, RaisesBaseException} \cup ReturnValues

\* config.RETRY_COUNT and config.RETRY_DELAY may be set to any number, also
\* 0 and negative ones
RetryCounts == -1 .. MaxRetryCount
RetryDelays == -1 .. MaxDelay

VARIABLES
    RETRY_COUNT,   \* config.RETRY_COUNT
    RETRY_DELAY,   \* config.RETRY_DELAY
    pc,            \* position of the perform call
    stop,          \* the stop value of range(config.RETRY_COUNT), fixed at loop entry
    attempt,       \* the loop variable of perform
    trace,         \* the calls perform has made so far: _perform and time.sleep
    ret,           \* the value perform returned
    exc,           \* the exception perform raised
    ta_in,         \* try_alternatives: the arguments of the last call
    ta_out,        \* try_alternatives: result and probes of the last call
    locators,      \* LocatorManager.locators
    lm_call,       \* LocatorManager: the last call and what it returned
    lm_prev,       \* LocatorManager: the call before the last one
    session,       \* what the caller of one session holds: name, selector, alternatives, page
    heap,          \* the list objects: the one Recorder.actions refers to, and copies of it
    exported,      \* the value the caller got from Recorder.export(), and its length then
    rec_log,       \* the entries appended so far, in call order, and by which call
    rec_exc,       \* the exception the last call of record_action raised
    streams,       \* the LocatorManager call each concurrent stream is in
    action_class,  \* the class of the action object that perform is called on
    args,          \* the arguments of the perform call that is running
    page_calls     \* the calls made on the page of the action, in call order

cfgVars == <<RETRY_COUNT, RETRY_DELAY>>
performVars == <<pc, stop, attempt, trace, ret, exc>>
healingVars == <<ta_in, ta_out>>
registryVars == <<locators, lm_call, lm_prev>>
sessionVars == <<session>>
recorderVars == <<heap, exported, rec_log, rec_exc>>
streamVars == <<streams>>
pageVars == <<action_class, args, page_calls>>
vars == <<RETRY_COUNT, RETRY_DELAY, pc, stop, attempt, trace, ret, exc,
          ta_in, ta_out, locators, lm_call, lm_prev,
          session, heap, exported, rec_log, rec_exc, streams,
          action_class, args, page_calls>>

\* no session: nobody holds a name, a selector, alternatives or a page
NoSession ==
    [name |-> None, selector |-> None, alternatives |-> <<>>,
     page |-> [sel \in Selectors |-> None]]

\* BaseAction.perform
\*
\*   for attempt in range(config.RETRY_COUNT):
\*       try:
\*           return self._perform(args, kwargs)
\*       except Exception as e:
\*           print(...)
\*           time.sleep(config.RETRY_DELAY)
\*   raise Exception(f"Action failed after {config.RETRY_COUNT} attempts.")
InvokeEvent(n, out) == [ev |-> "_perform", n |-> n, out |-> out]
\* a sleep of a fixed duration instead of the configured one
SleepEvent_fixed(d) == [ev |-> "sleep", d |-> DefaultRetryDelay]

\* line 17: time.sleep(d)
SleepEvent(d) == [ev |-> "sleep", d |-> d]

\* a range that is one element short
range_has_next_short(i, n) == i + 1 < n

\* a loop whose body runs once before the bound is looked at
range_has_next_do_while(i, n) == i < n \/ i = 0

\* range(n) has another element after index i
range_has_next(i, n) == i < n

\* the exception of line 18
ActionFailed(n) == [type |-> "Exception", attempts |-> n]

\* an exception that perform does not raise itself and that passes through it
Uncaught(type) == [type |-> type]

\* time.sleep(d) raises ValueError for a negative d
sleep_raises(d) == d < 0

\* the classes of action objects: BaseAction itself, its subclasses
\* ClickAction and TypeAction, and the subclass that a test defines, whose
\* _perform returns a value or raises as the test sets it up
ActionClasses == {"BaseAction", "ClickAction", "TypeAction", "TestAction"}
Texts == {"", "testuser"}

\* the arguments perform is called with: ClickAction takes a selector,
\* TypeAction a selector and a text
Arguments(class) ==
    IF class = "ClickAction" THEN {<<sel>> : sel \in Selectors}
    ELSE IF class = "TypeAction"
      THEN {<<sel, text>> : sel \in Selectors, text \in Texts}
    ELSE {<<>>}

\* a BaseAction._perform whose exception is no Exception
_perform_outcomes_uncaught(class) ==
    IF class = "BaseAction" THEN {RaisesBaseException}
    ELSE IF class \in {"ClickAction", "TypeAction"}
      THEN {Raises, RaisesBaseException, None}
    ELSE Outcomes

\* what one call of _perform can do: BaseAction._perform raises
\* NotImplementedError, ClickAction and TypeAction return None unless the
\* page raises
_perform_outcomes(class) ==
    IF class = "BaseAction" THEN {Raises}
    ELSE IF class \in {"ClickAction", "TypeAction"}
      THEN {Raises, RaisesBaseException, None}
    ELSE Outcomes

PageCall(op, arguments) == [op |-> op, args |-> arguments]

\* a _perform of TypeAction that passes only the selector on
_perform_page_calls_no_text(class, arguments) ==
    IF class = "ClickAction" THEN <<PageCall("click", arguments)>>
    ELSE IF class = "TypeAction" THEN <<PageCall("fill", <<arguments[1]>>)>>
    ELSE <<>>

\* the calls one call of _perform makes on the page: self.page.click(selector)
\* in ClickAction, self.page.fill(selector, text) in TypeAction
_perform_page_calls(class, arguments) ==
    IF class = "ClickAction" THEN <<PageCall("click", arguments)>>
    ELSE IF class = "TypeAction" THEN <<PageCall("fill", arguments)>>
    ELSE <<>>

\* perform is called: the for statement evaluates range(config.RETRY_COUNT)
\* once and takes its first element, or falls through to the raise
perform_enter ==
    /\ pc = "idle"
    /\ stop' = RETRY_COUNT
    /\ attempt' = 0
    /\ trace' = <<>>
    /\ ret' = NoReturn
    /\ exc' = NoException
    /\ pc' = IF range_has_next(0, RETRY_COUNT) THEN "try" ELSE "raise"
    /\ \E a \in Arguments(action_class) : args' = a
    /\ UNCHANGED <<action_class, page_calls>>
    /\ UNCHANGED <<cfgVars, healingVars, registryVars, sessionVars, recorderVars, streamVars>>

\* perform_try without the return: the result is kept and the loop goes on
perform_try_no_return ==
    /\ pc = "try"
    /\ \E out \in _perform_outcomes(action_class) :
        /\ trace' = Append(trace, InvokeEvent(attempt + 1, out))
        /\ IF out = Raises
             THEN /\ pc' = "except"
                  /\ ret' = ret
                  /\ exc' = exc
                  /\ attempt' = attempt
             ELSE IF out = RaisesBaseException
             THEN /\ pc' = "propagated"
                  /\ ret' = ret
                  /\ exc' = Uncaught("BaseException")
                  /\ attempt' = attempt
             ELSE /\ ret' = out
                  /\ exc' = exc
                  /\ IF range_has_next(attempt + 1, stop)
                       THEN /\ attempt' = attempt + 1
                            /\ pc' = "try"
                       ELSE /\ attempt' = attempt
                            /\ pc' = "returned"
    /\ UNCHANGED stop
    /\ page_calls' = page_calls \o _perform_page_calls(action_class, args)
    /\ UNCHANGED <<action_class, args>>
    /\ UNCHANGED <<cfgVars, healingVars, registryVars, sessionVars, recorderVars, streamVars>>

\* perform_try with a bare except: the handler takes every exception
perform_try_catch_all ==
    /\ pc = "try"
    /\ \E out \in _perform_outcomes(action_class) :
        /\ trace' = Append(trace, InvokeEvent(attempt + 1, out))
        /\ IF out \in {Raises, RaisesBaseException}
             THEN /\ pc' = "except"
                  /\ ret' = ret
             ELSE /\ pc' = "returned"
                  /\ ret' = out
    /\ UNCHANGED <<stop, attempt, exc>>
    /\ page_calls' = page_calls \o _perform_page_calls(action_class, args)
    /\ UNCHANGED <<action_class, args>>
    /\ UNCHANGED <<cfgVars, healingVars, registryVars, sessionVars, recorderVars, streamVars>>

\* lines 13-15: one call of _perform, which returns a value, raises an
\* Exception that the handler takes, or raises one that passes through perform
perform_try ==
    /\ pc = "try"
    /\ \E out \in _perform_outcomes(action_class) :
        /\ trace' = Append(trace, InvokeEvent(attempt + 1, out))
        /\ IF out = Raises
             THEN /\ pc' = "except"
                  /\ ret' = ret
                  /\ exc' = exc
             ELSE IF out = RaisesBaseException
             THEN /\ pc' = "propagated"
                  /\ ret' = ret
                  /\ exc' = Uncaught("BaseException")
             ELSE /\ pc' = "returned"
                  /\ ret' = out
                  /\ exc' = exc
    /\ UNCHANGED <<stop, attempt>>
    /\ page_calls' = page_calls \o _perform_page_calls(action_class, args)
    /\ UNCHANGED <<action_class, args>>
    /\ UNCHANGED <<cfgVars, healingVars, registryVars, sessionVars, recorderVars, streamVars>>

\* perform_except that sleeps only when another attempt follows
perform_except_between ==
    /\ pc = "except"
    /\ IF range_has_next(attempt + 1, stop)
         THEN /\ trace' = Append(trace, SleepEvent(RETRY_DELAY))
              /\ IF sleep_raises(RETRY_DELAY)
                   THEN /\ attempt' = attempt
                        /\ pc' = "propagated"
                        /\ exc' = Uncaught("ValueError")
                   ELSE /\ attempt' = attempt + 1
                        /\ pc' = "try"
                        /\ exc' = exc
         ELSE /\ trace' = trace
              /\ attempt' = attempt
              /\ pc' = "raise"
              /\ exc' = exc
    /\ UNCHANGED <<stop, ret>>
    /\ UNCHANGED <<cfgVars, healingVars, registryVars, sessionVars, recorderVars, streamVars, pageVars>>

\* lines 15-17: the handler calls time.sleep, whose ValueError for a negative
\* delay leaves perform; otherwise the loop takes the next element of the
\* range or ends
perform_except ==
    /\ pc = "except"
    /\ trace' = Append(trace, SleepEvent(RETRY_DELAY))
    /\ IF sleep_raises(RETRY_DELAY)
         THEN /\ attempt' = attempt
              /\ pc' = "propagated"
              /\ exc' = Uncaught("ValueError")
         ELSE /\ exc' = exc
              /\ IF range_has_next(attempt + 1, stop)
                   THEN /\ attempt' = attempt + 1
                        /\ pc' = "try"
                   ELSE /\ attempt' = attempt
                        /\ pc' = "raise"
    /\ UNCHANGED <<stop, ret>>
    /\ UNCHANGED <<cfgVars, healingVars, registryVars, sessionVars, recorderVars, streamVars, pageVars>>

\* perform_raise that reports the loop variable instead of the budget
perform_raise_loop_var ==
    /\ pc = "raise"
    /\ exc' = ActionFailed(attempt)
    /\ pc' = "failed"
    /\ UNCHANGED <<stop, attempt, trace, ret>>
    /\ UNCHANGED <<cfgVars, healingVars, registryVars, sessionVars, recorderVars, streamVars, pageVars>>

\* perform_raise that starts the loop again instead of raising
perform_raise_again ==
    /\ pc = "raise"
    /\ stop >= 1
    /\ pc' = "try"
    /\ attempt' = 0
    /\ trace' = <<>>
    /\ UNCHANGED <<stop, ret, exc>>
    /\ UNCHANGED <<cfgVars, healingVars, registryVars, sessionVars, recorderVars, streamVars, pageVars>>

\* perform_raise whose exception tells whether the registry holds a healed entry
perform_raise_with_trace ==
    /\ pc = "raise"
    /\ exc' = [type |-> "Exception", attempts |-> RETRY_COUNT,
               healed |-> DOMAIN locators # {}]
    /\ pc' = "failed"
    /\ UNCHANGED <<stop, attempt, trace, ret>>
    /\ UNCHANGED <<cfgVars, healingVars, registryVars, sessionVars, recorderVars, streamVars, pageVars>>

\* line 18: the loop is over, the exception reads config.RETRY_COUNT
perform_raise ==
    /\ pc = "raise"
    /\ exc' = ActionFailed(RETRY_COUNT)
    /\ pc' = "failed"
    /\ UNCHANGED <<stop, attempt, trace, ret>>
    /\ UNCHANGED <<cfgVars, healingVars, registryVars, sessionVars, recorderVars, streamVars, pageVars>>

\* the call is over: the caller has the return value or the exception
perform_exit ==
    /\ pc \in {"returned", "failed", "propagated"}
    /\ pc' = "idle"
    /\ stop' = 0
    /\ attempt' = 0
    /\ trace' = <<>>
    /\ ret' = NoReturn
    /\ exc' = NoException
    /\ args' = <<>>
    /\ UNCHANGED <<action_class, page_calls>>
    /\ UNCHANGED <<cfgVars, healingVars, registryVars, sessionVars, recorderVars, streamVars>>

\* the configuration is a module-level object that callers assign to between
\* calls of perform
set_config ==
    /\ pc = "idle"
    /\ \E n \in RetryCounts, d \in RetryDelays :
        /\ RETRY_COUNT' = n
        /\ RETRY_DELAY' = d
    /\ UNCHANGED <<performVars, healingVars, registryVars, sessionVars, recorderVars, streamVars, pageVars>>

\* ClickAction(page), TypeAction(page), BaseAction(page): the caller makes
\* the action object that it will call perform on
construct_action(classes) ==
    /\ pc = "idle"
    /\ \E class \in classes :
        /\ class # action_class
        /\ action_class' = class
    /\ UNCHANGED <<args, page_calls>>
    /\ UNCHANGED <<cfgVars, performVars, healingVars, registryVars, sessionVars,
                   recorderVars, streamVars>>

\* perform is called on the action object while the page log has room for
\* the calls of one more perform
action_perform_enter ==
    /\ Len(page_calls) + RETRY_COUNT <= MaxPageCalls
    /\ perform_enter

\* config is one module-level object: the action itself or another stream
\* may assign to it while a perform call is running
set_config_during_call ==
    /\ pc \in {"try", "except", "raise"}
    /\ \E n \in RetryCounts, d \in RetryDelays :
        /\ <<n, d>> # <<RETRY_COUNT, RETRY_DELAY>>
        /\ RETRY_COUNT' = n
        /\ RETRY_DELAY' = d
    /\ UNCHANGED <<performVars, healingVars, registryVars, sessionVars, recorderVars,
                   streamVars, pageVars>>

(***************************************************************************)
(* HealingStrategies.try_alternatives                                      *)
(*                                                                         *)
(*   for selector in alternatives:                                         *)
(*       try:                                                              *)
(*           if page.query_selector(selector):                             *)
(*               return selector                                           *)
(*       except Exception:                                                 *)
(*           continue                                                      *)
(*   return None                                                           *)
(***************************************************************************)
\* what page.query_selector does for one selector: it returns an element
\* handle, returns None, or raises
Element == "element"
Responses == {Element, None, Raises}
Pages == [Selectors -> Responses]

\* the ordered candidate lists of at most n selectors
RECURSIVE SeqsUpTo(_)
SeqsUpTo(n) ==
    IF n = 0 THEN {<<>>}
    ELSE LET shorter == SeqsUpTo(n - 1)
         IN  shorter \cup {Append(q, sel) : q \in {r \in shorter : Len(r) = n - 1},
                                            sel \in Selectors}
AlternativeLists == SeqsUpTo(MaxAlternatives)

query_selector(page, selector) == page[selector]

NoArguments == [page |-> [sel \in Selectors |-> None], alternatives |-> <<>>]

\* the outcome of one call: the value returned, the exception that left the
\* call, and the selectors passed to page.query_selector, in call order
NotCalled == [ret |-> NoReturn, exc |-> NoException, probes |-> <<>>]
Returned(value, probes) == [ret |-> value, exc |-> NoException, probes |-> probes]
Propagated(type, probes) == [ret |-> NoReturn, exc |-> [type |-> type], probes |-> probes]

\* the loop without its try/except: an error of the page leaves the call
RECURSIVE try_alternatives_unguarded_from(_, _, _, _)
try_alternatives_unguarded_from(page, alternatives, i, probes) ==
    IF i > Len(alternatives) THEN Returned(None, probes)
    ELSE LET selector == alternatives[i]
             probed == Append(probes, selector)
             response == query_selector(page, selector)
         IN  IF response = Raises THEN Propagated("Exception", probed)
             ELSE IF response = Element THEN Returned(selector, probed)
             ELSE try_alternatives_unguarded_from(page, alternatives, i + 1, probed)

\* the loop from the i-th candidate on
RECURSIVE try_alternatives_from(_, _, _, _)
try_alternatives_from(page, alternatives, i, probes) ==
    IF i > Len(alternatives) THEN Returned(None, probes)
    ELSE LET selector == alternatives[i]
             probed == Append(probes, selector)
             response == query_selector(page, selector)
         IN  IF response = Raises
               THEN try_alternatives_from(page, alternatives, i + 1, probed)
             ELSE IF response = Element THEN Returned(selector, probed)
             ELSE try_alternatives_from(page, alternatives, i + 1, probed)

\* the scan that probes a candidate a second time after its probe has raised
RECURSIVE try_alternatives_retrying_from(_, _, _, _)
try_alternatives_retrying_from(page, alternatives, i, probes) ==
    IF i > Len(alternatives) THEN Returned(None, probes)
    ELSE LET selector == alternatives[i]
             probed == Append(probes, selector)
             response == query_selector(page, selector)
         IN  IF response = Raises
               THEN try_alternatives_retrying_from(page, alternatives, i + 1,
                                                   Append(probed, selector))
             ELSE IF response = Element THEN Returned(selector, probed)
             ELSE try_alternatives_retrying_from(page, alternatives, i + 1, probed)
try_alternatives_retrying(page, alternatives) ==
    try_alternatives_retrying_from(page, alternatives, 1, <<>>)

\* the scan that goes on after a hit and returns the last candidate that exists
RECURSIVE LastHit(_, _, _, _, _)
LastHit(page, alternatives, i, probes, hit) ==
    IF i > Len(alternatives) THEN Returned(hit, probes)
    ELSE LET selector == alternatives[i]
             probed == Append(probes, selector)
         IN  LastHit(page, alternatives, i + 1, probed,
                     IF query_selector(page, selector) = Element THEN selector ELSE hit)
try_alternatives_last(page, alternatives) == LastHit(page, alternatives, 1, <<>>, None)

\* the scan without the try/except of lines 7, 10 and 11
try_alternatives_unguarded(page, alternatives) ==
    try_alternatives_unguarded_from(page, alternatives, 1, <<>>)

\* the scan that falls back on the first candidate instead of returning None
try_alternatives_fallback(page, alternatives) ==
    LET out == try_alternatives_from(page, alternatives, 1, <<>>)
    IN  IF out.ret # None THEN out
        ELSE IF alternatives = <<>> THEN Propagated("IndexError", out.probes)
        ELSE Returned(alternatives[1], out.probes)

try_alternatives(page, alternatives) ==
    try_alternatives_from(page, alternatives, 1, <<>>)

\* a caller applies try_alternatives to a page and a candidate list
call_try_alternatives ==
    /\ ta_out = NotCalled
    /\ \E page \in Pages, alternatives \in AlternativeLists :
        /\ ta_in' = [page |-> page, alternatives |-> alternatives]
        /\ ta_out' = try_alternatives(page, alternatives)
    /\ UNCHANGED <<cfgVars, performVars, registryVars, sessionVars, recorderVars, streamVars, pageVars>>

\* the caller has the result: the call is over
try_alternatives_exit ==
    /\ ta_out # NotCalled
    /\ ta_in' = NoArguments
    /\ ta_out' = NotCalled
    /\ UNCHANGED <<cfgVars, performVars, registryVars, sessionVars, recorderVars, streamVars, pageVars>>

(***************************************************************************)
(* LocatorManager                                                          *)
(***************************************************************************)
\* self.locators = {}
EmptyDict == [n \in {} |-> None]
Dicts == UNION {[D -> Selectors] : D \in SUBSET Names}

\* self.locators.get(name)
get_selector(locs, name) == IF name \in DOMAIN locs THEN locs[name] ELSE None

\* a lookup that creates the entry it does not find, as dict.setdefault does
get_selector_setdefault(locs, name) ==
    [n \in DOMAIN locs \cup {name} |-> IF n \in DOMAIN locs THEN locs[n] ELSE None]

\* the dictionary after self.locators.get(name): dict.get stores nothing
get_selector_leaves(locs, name) == locs

\* an update that removes the entry when it already holds the selector
update_selector_toggle(locs, name, selector) ==
    IF name \in DOMAIN locs /\ locs[name] = selector
      THEN [n \in DOMAIN locs \ {name} |-> locs[n]]
      ELSE [n \in DOMAIN locs \cup {name} |-> IF n = name THEN selector ELSE locs[n]]

\* an update that replaces the whole dictionary by the one entry
update_selector_only(locs, name, selector) == [n \in {name} |-> selector]

\* an update that keeps the entry a name already has
update_selector_keep(locs, name, selector) ==
    IF name \in DOMAIN locs THEN locs
    ELSE [n \in DOMAIN locs \cup {name} |-> IF n = name THEN selector ELSE locs[n]]

\* self.locators[name] = selector
update_selector(locs, name, selector) ==
    [n \in DOMAIN locs \cup {name} |-> IF n = name THEN selector ELSE locs[n]]

\* a validation that rejects one selector
_is_valid_rejecting(selector) == selector # "#a"

\* the placeholder: every selector is valid
_is_valid(selector) == TRUE

\* the validation method heal_selector calls: the placeholder as shipped, or
\* the stub that a test patches in its place
ShippedIsValid == [sel \in Selectors |-> _is_valid(sel)]
IsValidMethods == [Selectors -> BOOLEAN]

\* the outcome of heal_selector: the dictionary after the call, the value
\* returned and the selectors passed to _is_valid, in call order
Healed(locs, value, validated) ==
    [locators |-> locs, ret |-> value, validated |-> validated]

RECURSIVE heal_selector_from(_, _, _, _, _, _)
heal_selector_from(locs, name, alternatives, is_valid, i, validated) ==
    IF i > Len(alternatives) THEN Healed(locs, None, validated)
    ELSE LET alt == alternatives[i]
             checked == Append(validated, alt)
         IN  IF is_valid[alt]
               THEN Healed(update_selector(locs, name, alt), alt, checked)
               ELSE heal_selector_from(locs, name, alternatives, is_valid, i + 1, checked)

\* a heal that validates every alternative before it takes the first valid one
heal_selector_validate_all(locs, name, alternatives, is_valid) ==
    LET out == heal_selector_from(locs, name, alternatives, is_valid, 1, <<>>)
    IN  Healed(out.locators, out.ret, alternatives)

\* a heal that drops the entry of the name when no alternative is valid
heal_selector_forget(locs, name, alternatives, is_valid) ==
    LET out == heal_selector_from(locs, name, alternatives, is_valid, 1, <<>>)
    IN  IF out.ret # None THEN out
        ELSE Healed([n \in DOMAIN locs \ {name} |-> locs[n]], None, out.validated)

heal_selector(locs, name, alternatives, is_valid) ==
    heal_selector_from(locs, name, alternatives, is_valid, 1, <<>>)

\* the record of one call of a LocatorManager method
NoCall ==
    [op |-> "none", name |-> None, selector |-> None, alternatives |-> <<>>,
     is_valid |-> ShippedIsValid, before |-> EmptyDict, ret |-> NoReturn,
     validated |-> <<>>]
Brief(call) == [op |-> call.op, name |-> call.name, selector |-> call.selector]

call_get_selector ==
    /\ lm_call = NoCall
    /\ \E name \in Names :
        /\ lm_call' = [NoCall EXCEPT !.op = "get_selector", !.name = name,
                                     !.before = locators,
                                     !.ret = get_selector(locators, name)]
        /\ locators' = get_selector_leaves(locators, name)
    /\ UNCHANGED <<lm_prev, cfgVars, performVars, healingVars, sessionVars, recorderVars, streamVars, pageVars>>

call_update_selector ==
    /\ lm_call = NoCall
    /\ \E name \in Names, selector \in Selectors :
        /\ lm_call' = [NoCall EXCEPT !.op = "update_selector", !.name = name,
                                     !.selector = selector,
                                     !.before = locators, !.ret = None]
        /\ locators' = update_selector(locators, name, selector)
    /\ UNCHANGED <<lm_prev, cfgVars, performVars, healingVars, sessionVars, recorderVars, streamVars, pageVars>>

call_heal_selector ==
    /\ lm_call = NoCall
    /\ \E name \in Names, alternatives \in AlternativeLists,
          is_valid \in IsValidMethods :
        LET out == heal_selector(locators, name, alternatives, is_valid)
        IN  /\ lm_call' = [NoCall EXCEPT !.op = "heal_selector", !.name = name,
                                         !.alternatives = alternatives,
                                         !.is_valid = is_valid,
                                         !.before = locators, !.ret = out.ret,
                                         !.validated = out.validated]
            /\ locators' = out.locators
    /\ UNCHANGED <<lm_prev, cfgVars, performVars, healingVars, sessionVars, recorderVars, streamVars, pageVars>>

\* the caller has the result: the call is over and becomes the previous call
locator_manager_exit ==
    /\ lm_call # NoCall
    /\ lm_prev' = Brief(lm_call)
    /\ lm_call' = NoCall
    /\ UNCHANGED <<locators, cfgVars, performVars, healingVars, sessionVars, recorderVars, streamVars, pageVars>>

(***************************************************************************)
(* One LocatorManager shared by two streams (threads).  The class has no   *)
(* lock: a call in one stream runs statement by statement between the      *)
(* statements of the other.  A store into the dict (line 12) is one step:  *)
(* a dict item assignment is atomic in the interpreter.                    *)
(***************************************************************************)
Streams == {1, 2}
StreamLists == SeqsUpTo(MaxStreamAlternatives)

\* the validation method of the shared manager, the same for both streams:
\* the placeholder as shipped or a stub that rejects one selector
RejectsA == [sel \in Selectors |-> sel # "#a"]
StreamIsValidMethods == {ShippedIsValid, RejectsA}

\* the frame of one call: its arguments, the position in the loop of
\* heal_selector, the local variable alt, the selector the call has stored
\* and the value it has returned
NoFrame ==
    [op |-> "none", name |-> None, selector |-> None, alternatives |-> <<>>,
     is_valid |-> ShippedIsValid, pc |-> "idle", i |-> 0, alt |-> None,
     wrote |-> None, ret |-> NoReturn]

\* a return that reads the entry of the name back instead of the local alt
heal_returns_entry(locs, name, alt) == get_selector(locs, name)

\* line 19: return alt
heal_returns(locs, name, alt) == alt

\* manager.update_selector(name, selector) is called in a stream
stream_call_update_selector ==
    /\ \E t \in Streams, name \in Names, selector \in Selectors :
        /\ streams[t].pc = "idle"
        /\ streams' = [streams EXCEPT ![t] =
                [NoFrame EXCEPT !.op = "update_selector", !.name = name,
                                !.selector = selector, !.alt = selector,
                                !.pc = "store"]]
    /\ UNCHANGED <<cfgVars, performVars, healingVars, registryVars, sessionVars,
                   recorderVars, pageVars>>

\* manager.heal_selector(name, alternatives) is called in a stream
stream_call_heal_selector ==
    /\ \E t \in Streams, name \in Names, alternatives \in StreamLists,
          is_valid \in StreamIsValidMethods :
        /\ streams[t].pc = "idle"
        /\ \A u \in Streams :
              streams[u].op = "heal_selector" => streams[u].is_valid = is_valid
        /\ streams' = [streams EXCEPT ![t] =
                [NoFrame EXCEPT !.op = "heal_selector", !.name = name,
                                !.alternatives = alternatives,
                                !.is_valid = is_valid, !.pc = "for"]]
    /\ UNCHANGED <<cfgVars, performVars, healingVars, registryVars, sessionVars,
                   recorderVars, pageVars>>

\* lines 16-17 and 20: the loop takes the next alternative and validates it,
\* or the alternatives are exhausted and the call returns None
stream_for ==
    /\ \E t \in Streams :
        LET f == streams[t]
        IN  /\ f.pc = "for"
            /\ streams' = [streams EXCEPT ![t] =
                  IF f.i + 1 > Len(f.alternatives)
                    THEN [f EXCEPT !.pc = "done", !.ret = None]
                    ELSE LET alt == f.alternatives[f.i + 1]
                         IN  [f EXCEPT !.i = f.i + 1, !.alt = alt,
                                       !.pc = IF f.is_valid[alt] THEN "store"
                                              ELSE "for"]]
    /\ UNCHANGED <<cfgVars, performVars, healingVars, registryVars, sessionVars,
                   recorderVars, pageVars>>

\* line 12: self.locators[name] = selector, in update_selector or in the
\* update_selector that heal_selector calls (line 18)
stream_store ==
    /\ \E t \in Streams :
        LET f == streams[t]
        IN  /\ f.pc = "store"
            /\ locators' = update_selector(locators, f.name, f.alt)
            /\ streams' = [streams EXCEPT ![t] =
                  IF f.op = "heal_selector"
                    THEN [f EXCEPT !.wrote = f.alt, !.pc = "return"]
                    ELSE [f EXCEPT !.wrote = f.alt, !.pc = "done", !.ret = None]]
    /\ UNCHANGED <<lm_call, lm_prev, cfgVars, performVars, healingVars,
                   sessionVars, recorderVars, pageVars>>

\* line 19: heal_selector returns
stream_return ==
    /\ \E t \in Streams :
        LET f == streams[t]
        IN  /\ f.pc = "return"
            /\ streams' = [streams EXCEPT ![t] =
                  [f EXCEPT !.pc = "done",
                            !.ret = heal_returns(locators, f.name, f.alt)]]
    /\ UNCHANGED <<cfgVars, performVars, healingVars, registryVars, sessionVars,
                   recorderVars, pageVars>>

\* both calls are over and their callers have the results
streams_join ==
    /\ \A t \in Streams : streams[t].pc = "done"
    /\ streams' = [t \in Streams |-> NoFrame]
    /\ UNCHANGED <<cfgVars, performVars, healingVars, registryVars, sessionVars,
                   recorderVars, pageVars>>

(***************************************************************************)
(* Recorder                                                                *)
(***************************************************************************)
\* the arguments of record_action seen in the repository: verbs, selectors and
\* values, the empty string and the default value None among them
RecordedVerbs == {"click", ""}
RecordedSelectors == {"#a", ""}
RecordedValues == {None, ""}
Entry(action, selector, value) ==
    [action |-> action, selector |-> selector, value |-> value]
Entries == {Entry(a, sel, v) : a \in RecordedVerbs, sel \in RecordedSelectors,
                               v \in RecordedValues}

\* references to list objects: self.actions is bound once, in __init__
SelfActions == 1
CopyOfActions == 2
NoRef == 0

\* self.actions = []
NewRecorderHeap == [r \in {SelfActions} |-> <<>>]
NotExported == [ref |-> NoRef, seen |-> 0]

\* the list self.actions refers to
actions == heap[SelfActions]

\* a record_action that puts the new entry in front of the others
record_action_prepend(list, action, selector, value) ==
    [actions |-> <<Entry(action, selector, value)>> \o list,
     exc |-> NoException]

\* a record_action that rejects empty verbs and selectors
record_action_validating(list, action, selector, value) ==
    IF action = "" \/ selector = ""
      THEN [actions |-> list, exc |-> [type |-> "ValueError"]]
      ELSE [actions |-> Append(list, Entry(action, selector, value)),
            exc |-> NoException]

\* a record_action that drops an entry equal to the last one
record_action_dedup(list, action, selector, value) ==
    IF list # <<>> /\ list[Len(list)] = Entry(action, selector, value)
      THEN [actions |-> list, exc |-> NoException]
      ELSE [actions |-> Append(list, Entry(action, selector, value)),
            exc |-> NoException]

\* self.actions.append({'action': ..., 'selector': ..., 'value': ...})
record_action(list, action, selector, value) ==
    [actions |-> Append(list, Entry(action, selector, value)),
     exc |-> NoException]

\* an export that returns a copy of the list
export_copy(h) ==
    [heap |-> [r \in {SelfActions, CopyOfActions} |-> h[SelfActions]],
     ref |-> CopyOfActions]

\* return self.actions
export(h) == [heap |-> h, ref |-> SelfActions]

LogEntry(via, entry) == [via |-> via, entry |-> entry]

call_record_action ==
    /\ Len(actions) < MaxRecorded
    /\ Len(rec_log) < 2 * MaxRecorded
    /\ \E action \in RecordedVerbs, selector \in RecordedSelectors,
          value \in RecordedValues :
        LET out == record_action(actions, action, selector, value)
        IN  /\ heap' = [heap EXCEPT ![SelfActions] = out.actions]
            /\ rec_exc' = out.exc
            /\ rec_log' = Append(rec_log, LogEntry("record_action",
                                                   Entry(action, selector, value)))
    /\ UNCHANGED <<exported, cfgVars, performVars, healingVars, registryVars,
                   sessionVars, streamVars, pageVars>>

call_export ==
    /\ LET out == export(heap)
       IN  /\ heap' = out.heap
           /\ exported' = [ref |-> out.ref, seen |-> Len(out.heap[out.ref])]
    /\ UNCHANGED <<rec_log, rec_exc, cfgVars, performVars, healingVars,
                   registryVars, sessionVars, streamVars, pageVars>>

\* the caller appends to the list it got from export()
exported_append ==
    /\ exported.ref # NoRef
    /\ Len(heap[exported.ref]) < MaxRecorded
    /\ Len(rec_log) < 2 * MaxRecorded
    /\ \E entry \in Entries :
        /\ heap' = [heap EXCEPT ![exported.ref] = Append(@, entry)]
        /\ rec_log' = Append(rec_log, LogEntry("exported.append", entry))
    /\ UNCHANGED <<exported, rec_exc, cfgVars, performVars, healingVars,
                   registryVars, sessionVars, streamVars, pageVars>>

(***************************************************************************)
(* A session: a caller that holds a LocatorManager, a page, a locator name *)
(* with its alternatives and a ClickAction, and calls them one at a time.  *)
(***************************************************************************)
\* the caller's data: the name it heals, the selector it passes to perform,
\* the alternatives it passes to heal_selector and the page of its action
session_begin(selectors, lists, pages) ==
    /\ pc = "idle"
    /\ lm_call = NoCall
    /\ session = NoSession
    /\ \E name \in Names, selector \in selectors, alternatives \in lists,
          page \in pages :
        session' = [name |-> name, selector |-> selector,
                    alternatives |-> alternatives, page |-> page]
    /\ UNCHANGED <<cfgVars, performVars, healingVars, registryVars, recorderVars, streamVars, pageVars>>

session_end ==
    /\ pc = "idle"
    /\ lm_call = NoCall
    /\ session # NoSession
    /\ session' = NoSession
    /\ UNCHANGED <<cfgVars, performVars, healingVars, registryVars, recorderVars, streamVars, pageVars>>

\* manager.heal_selector(name, alternatives): heal_selector has no page or
\* probe parameter, the validation is the method _is_valid as shipped
session_heal_selector ==
    /\ pc = "idle"
    /\ lm_call = NoCall
    /\ session # NoSession
    /\ LET out == heal_selector(locators, session.name, session.alternatives,
                                ShippedIsValid)
       IN  /\ lm_call' = [NoCall EXCEPT !.op = "heal_selector",
                                        !.name = session.name,
                                        !.alternatives = session.alternatives,
                                        !.before = locators, !.ret = out.ret,
                                        !.validated = out.validated]
           /\ locators' = out.locators
    /\ UNCHANGED <<lm_prev, cfgVars, performVars, healingVars, sessionVars,
                   recorderVars, streamVars, pageVars>>

\* a perform that heals the name before its first attempt
session_perform_enter_healing ==
    /\ session # NoSession
    /\ lm_call = NoCall
    /\ pc = "idle"
    /\ stop' = RETRY_COUNT
    /\ attempt' = 0
    /\ trace' = <<>>
    /\ ret' = NoReturn
    /\ exc' = NoException
    /\ pc' = IF range_has_next(0, RETRY_COUNT) THEN "try" ELSE "raise"
    /\ ta_in' = [page |-> session.page, alternatives |-> session.alternatives]
    /\ ta_out' = try_alternatives(session.page, session.alternatives)
    /\ locators' = heal_selector(locators, session.name, session.alternatives,
                                 ShippedIsValid).locators
    /\ UNCHANGED <<lm_call, lm_prev, cfgVars, sessionVars, recorderVars, streamVars, pageVars>>

\* a perform that grants one more attempt when the caller has alternatives
session_perform_enter_extra ==
    /\ session # NoSession
    /\ lm_call = NoCall
    /\ pc = "idle"
    /\ stop' = IF session.alternatives # <<>> THEN RETRY_COUNT + 1 ELSE RETRY_COUNT
    /\ attempt' = 0
    /\ trace' = <<>>
    /\ ret' = NoReturn
    /\ exc' = NoException
    /\ pc' = "try"
    /\ UNCHANGED <<cfgVars, healingVars, registryVars, sessionVars, recorderVars,
                   streamVars, pageVars>>

\* action.perform(selector): perform receives the selector of the caller
session_perform_enter ==
    /\ session # NoSession
    /\ lm_call = NoCall
    /\ perform_enter

\* perform passes its own arguments to every call of _perform (line 14)
AttemptSelector(i) == session.selector

\* the pages whose query_selector never raises
ExistencePages == [Selectors -> {Element, None}]
CandidateLists == SeqsUpTo(MaxCandidates)

(***************************************************************************)
(* Initial state and specifications.                                       *)
(***************************************************************************)
Init ==
    /\ RETRY_COUNT = DefaultRetryCount
    /\ RETRY_DELAY = DefaultRetryDelay
    /\ pc = "idle"
    /\ stop = 0
    /\ attempt = 0
    /\ trace = <<>>
    /\ ret = NoReturn
    /\ exc = NoException
    /\ ta_in = NoArguments
    /\ ta_out = NotCalled
    /\ locators = EmptyDict
    /\ lm_call = NoCall
    /\ lm_prev = Brief(NoCall)
    /\ session = NoSession
    /\ heap = NewRecorderHeap
    /\ exported = NotExported
    /\ rec_log = <<>>
    /\ rec_exc = NoException
    /\ streams = [t \in Streams |-> NoFrame]
    /\ action_class = "TestAction"
    /\ args = <<>>
    /\ page_calls = <<>>

NextPerform ==
    \/ perform_enter
    \/ perform_try
    \/ perform_except
    \/ perform_raise
    \/ perform_exit
    \/ set_config

SpecPerform == Init /\ [][NextPerform]_vars

\* every call of _perform and of time.sleep returns or raises: a perform call
\* that has a step to take takes it
SpecPerformFair ==
    /\ Init
    /\ [][NextPerform]_vars
    /\ WF_vars(perform_try)
    /\ WF_vars(perform_except)
    /\ WF_vars(perform_raise)

NextBaseAction ==
    \/ construct_action({"BaseAction"})
    \/ perform_enter
    \/ perform_try
    \/ perform_except
    \/ perform_raise
    \/ perform_exit
    \/ set_config

SpecBaseAction == Init /\ [][NextBaseAction]_vars

NextActions ==
    \/ construct_action({"ClickAction", "TypeAction"})
    \/ action_perform_enter
    \/ perform_try
    \/ perform_except
    \/ perform_raise
    \/ perform_exit

SpecActions == Init /\ [][NextActions]_vars

NextConfigRace ==
    \/ perform_enter
    \/ perform_try
    \/ perform_except
    \/ perform_raise
    \/ perform_exit
    \/ set_config
    \/ set_config_during_call

SpecConfigRace == Init /\ [][NextConfigRace]_vars

NextHealing ==
    \/ call_try_alternatives
    \/ try_alternatives_exit

SpecHealing == Init /\ [][NextHealing]_vars

NextRegistry ==
    \/ call_get_selector
    \/ call_update_selector
    \/ call_heal_selector
    \/ locator_manager_exit

SpecRegistry == Init /\ [][NextRegistry]_vars

NextHealProbe ==
    \/ session_begin({None}, AlternativeLists, Pages)
    \/ session_heal_selector
    \/ locator_manager_exit
    \/ session_end

SpecHealProbe == Init /\ [][NextHealProbe]_vars

NextSession ==
    \/ session_begin(Selectors \cup {None}, CandidateLists, ExistencePages)
    \/ session_heal_selector
    \/ locator_manager_exit
    \/ session_perform_enter
    \/ perform_try
    \/ perform_except
    \/ perform_raise
    \/ perform_exit
    \/ session_end

SpecSession == Init /\ [][NextSession]_vars

NextStreams ==
    \/ stream_call_update_selector
    \/ stream_call_heal_selector
    \/ stream_for
    \/ stream_store
    \/ stream_return
    \/ streams_join

SpecStreams == Init /\ [][NextStreams]_vars

NextRecorder ==
    \/ call_record_action
    \/ call_export
    \/ exported_append

SpecRecorder == Init /\ [][NextRecorder]_vars

(***************************************************************************)
(* Properties of BaseAction.perform, checked under SpecPerform.            *)
(***************************************************************************)
IsInvoke(e) == e.ev = "_perform"
IsSleep(e) == e.ev = "sleep"
IsFailedInvoke(e) == IsInvoke(e) /\ e.out = Raises
IsSuccessfulInvoke(e) == IsInvoke(e) /\ e.out \in ReturnValues
NumInvocations == Cardinality({i \in 1..Len(trace) : IsInvoke(trace[i])})
NumFailedInvocations == Cardinality({i \in 1..Len(trace) : IsFailedInvoke(trace[i])})
NumSleeps == Cardinality({i \in 1..Len(trace) : IsSleep(trace[i])})
EveryAttemptFailed == \A i \in 1..Len(trace) : ~IsSuccessfulInvoke(trace[i])
Ended == pc \in {"returned", "failed"}

\* C1: for every retry budget k >= 1, a perform call that has ended and whose
\* action failed on every attempt has invoked the action exactly k times, and
\* it has ended by failing.
C1_FailingActionInvokedExactlyK ==
    (Ended /\ stop >= 1 /\ EveryAttemptFailed)
        => (NumInvocations = stop /\ pc = "failed")

C1_Witness ==
    /\ pc = "failed"
    /\ stop = DefaultRetryCount
    /\ NumInvocations = DefaultRetryCount
    /\ EveryAttemptFailed

\* C2 as stated: a perform whose k >= 1 attempts all failed has waited exactly
\* k-1 times, and no wait follows the final failed attempt.
C2_WaitsOnlyBetweenAttempts ==
    (pc = "failed" /\ stop >= 1)
        => (NumSleeps = stop - 1 /\ ~IsSleep(trace[Len(trace)]))

\* C2 as amended: a wait happens directly after a failed attempt and nowhere
\* else, and it happens after every failed attempt, the final one included:
\* never before the first attempt, never after a success, and a perform whose
\* k >= 1 attempts all failed has waited exactly k times.
C2_WaitFollowsEveryFailedAttempt ==
    /\ \A i \in 1..Len(trace) :
          IsSleep(trace[i]) => (i > 1 /\ IsFailedInvoke(trace[i-1]))
    /\ \A i \in 1..Len(trace) :
          IsFailedInvoke(trace[i]) =>
              IF i < Len(trace) THEN IsSleep(trace[i+1]) ELSE pc = "except"
    /\ \A i \in 1..Len(trace) :
          IsSuccessfulInvoke(trace[i]) => i = Len(trace)
    /\ (pc = "failed" /\ stop >= 1)
          => (NumSleeps = stop /\ IsSleep(trace[Len(trace)]))

C2_Witness ==
    /\ pc = "failed"
    /\ stop = 2
    /\ Len(trace) = 4
    /\ IsFailedInvoke(trace[3])
    /\ IsSleep(trace[4])

\* C3: perform sleeps once after each failed attempt, each time for
\* config.RETRY_DELAY; when all RETRY_COUNT attempts have failed the number of
\* sleeps equals RETRY_COUNT.
C3_SleepsEqualFailedAttempts ==
    /\ \A i \in 1..Len(trace) : IsSleep(trace[i]) => trace[i].d = RETRY_DELAY
    /\ pc \in {"try", "raise", "returned", "failed"}
          => NumSleeps = NumFailedInvocations
    /\ pc = "except" => NumSleeps = NumFailedInvocations - 1
    /\ (pc = "failed" /\ RETRY_COUNT >= 1) => NumSleeps = RETRY_COUNT

C3_Witness ==
    /\ pc = "failed"
    /\ RETRY_COUNT = DefaultRetryCount
    /\ RETRY_DELAY = 0
    /\ NumSleeps = DefaultRetryCount

\* C4: when the retry budget is exhausted perform ends by raising the failure
\* that carries the budget ("Action failed after N attempts", N the configured
\* count), and it returns no value.
C4_ExhaustedBudgetRaises ==
    /\ pc = "failed" =>
          /\ exc = ActionFailed(stop)
          /\ ret = NoReturn
          /\ EveryAttemptFailed
          /\ (stop >= 1 => NumInvocations = stop)
    /\ exc \notin {NoException, Uncaught("BaseException"), Uncaught("ValueError")}
          => pc = "failed"

C4_Witness ==
    /\ pc = "failed"
    /\ stop = 2
    /\ exc = ActionFailed(2)
    /\ NumInvocations = 2

\* C5: perform stops at the first successful attempt: when the action fails j
\* times and then succeeds, it has been invoked exactly j+1 <= maxAttempts times,
\* perform returns the value of that attempt, and nothing follows the success.
C5_StopsAtFirstSuccess ==
    /\ pc = "returned" =>
          /\ Len(trace) >= 1
          /\ IsSuccessfulInvoke(trace[Len(trace)])
          /\ ret = trace[Len(trace)].out
          /\ \A i \in 1..(Len(trace) - 1) : ~IsSuccessfulInvoke(trace[i])
          /\ NumInvocations = NumFailedInvocations + 1
          /\ NumInvocations <= stop
          /\ exc = NoException
    /\ (\E i \in 1..Len(trace) : IsSuccessfulInvoke(trace[i])) => pc = "returned"

C5_Witness ==
    /\ pc = "returned"
    /\ stop = DefaultRetryCount
    /\ NumFailedInvocations = 2
    /\ NumInvocations = 3
    /\ ret = "success"

(***************************************************************************)
(* Properties of HealingStrategies.try_alternatives, checked under         *)
(* SpecHealing.                                                            *)
(***************************************************************************)
Min(S) == CHOOSE m \in S : \A n \in S : m <= n
TryAlternativesCalled == ta_out # NotCalled

\* the positions of the candidates that exist on the page
Hits == {i \in 1..Len(ta_in.alternatives) :
            ta_in.page[ta_in.alternatives[i]] = Element}

\* C6: for every ordered candidate sequence, try_alternatives returns the first
\* candidate (lowest index i) for which the probe succeeds, and it makes at
\* most i probe calls, all of them on the candidates up to the winning one.
C6_ReturnsFirstHit ==
    (TryAlternativesCalled /\ Hits # {}) =>
        LET i == Min(Hits)
        IN  /\ ta_out.ret = ta_in.alternatives[i]
            /\ Len(ta_out.probes) <= i
            /\ \A k \in 1..Len(ta_out.probes) :
                  k <= i /\ ta_out.probes[k] = ta_in.alternatives[k]

C6_Witness ==
    /\ TryAlternativesCalled
    /\ Len(ta_in.alternatives) = 3
    /\ Hits = {2, 3}
    /\ ta_in.alternatives[2] # ta_in.alternatives[3]
    /\ ta_out.ret = ta_in.alternatives[2]
    /\ Len(ta_out.probes) = 2

\* C7: an error raised by the probe for one candidate is treated like 'does not
\* exist': it does not leave try_alternatives and does not end the scan, the
\* next candidate is probed, and None is returned only when every candidate
\* either does not exist or raised.
C7_ProbeErrorsAbsorbed ==
    TryAlternativesCalled =>
        /\ ta_out.exc = NoException
        /\ ta_out.ret # NoReturn
        /\ \A k \in 1..Len(ta_out.probes) :
              (ta_in.page[ta_out.probes[k]] = Raises /\ k < Len(ta_in.alternatives))
                  => /\ Len(ta_out.probes) > k
                     /\ ta_out.probes[k + 1] = ta_in.alternatives[k + 1]
        /\ (ta_out.ret = None) <=>
              (\A i \in 1..Len(ta_in.alternatives) :
                  ta_in.page[ta_in.alternatives[i]] \in {None, Raises})
        /\ (ta_out.ret = None) => (ta_out.probes = ta_in.alternatives)

C7_Witness ==
    /\ TryAlternativesCalled
    /\ Len(ta_in.alternatives) = 3
    /\ ta_in.page[ta_in.alternatives[1]] = None
    /\ ta_in.page[ta_in.alternatives[2]] = Raises
    /\ ta_in.page[ta_in.alternatives[3]] = Element
    /\ ta_out.ret = ta_in.alternatives[3]
    /\ Len(ta_out.probes) = 3

\* C8: try_alternatives on an empty candidate list returns None and makes no
\* probe call.
C8_EmptyListReturnsNone ==
    (TryAlternativesCalled /\ ta_in.alternatives = <<>>) =>
        /\ ta_out.ret = None
        /\ ta_out.exc = NoException
        /\ ta_out.probes = <<>>

C8_Witness ==
    /\ TryAlternativesCalled
    /\ ta_in.alternatives = <<>>
    /\ \E sel \in Selectors : ta_in.page[sel] = Element
    /\ ta_out.ret = None

(***************************************************************************)
(* Properties of LocatorManager, checked under SpecRegistry.               *)
(***************************************************************************)
\* C9: registry round trip: get_selector(t) called right after
\* update_selector(t, s) returns s, whatever the registry held before.
C9_GetAfterSetRoundTrip ==
    (/\ lm_call.op = "get_selector"
     /\ lm_prev.op = "update_selector"
     /\ lm_prev.name = lm_call.name)
        => lm_call.ret = lm_prev.selector

C9_Witness ==
    /\ lm_call.op = "get_selector"
    /\ lm_prev.op = "update_selector"
    /\ lm_prev.name = lm_call.name
    /\ lm_call.ret = "#b"
    /\ DOMAIN locators = Names

\* the positions of the alternatives that the validation accepts
ValidPositions == {i \in 1..Len(lm_call.alternatives) :
                      lm_call.is_valid[lm_call.alternatives[i]]}

\* C10: heal_selector on a name: when some alternative validates, the first
\* such alternative is returned and becomes the entry of the name, the
\* dictionary being the one update_selector(name, that alternative) gives; when
\* the alternatives are exhausted or empty, None is returned and the entry of
\* the name is what it was before the call (absent if it was absent).
C10_HealWritesFirstValid ==
    lm_call.op = "heal_selector" =>
        IF ValidPositions # {}
          THEN LET alt == lm_call.alternatives[Min(ValidPositions)]
               IN  /\ lm_call.ret = alt
                   /\ lm_call.name \in DOMAIN locators
                   /\ locators[lm_call.name] = alt
                   /\ locators = update_selector(lm_call.before, lm_call.name, alt)
          ELSE /\ lm_call.ret = None
               /\ (lm_call.name \in DOMAIN locators)
                     <=> (lm_call.name \in DOMAIN lm_call.before)
               /\ get_selector(locators, lm_call.name)
                     = get_selector(lm_call.before, lm_call.name)

C10_Witness ==
    /\ lm_call.op = "heal_selector"
    /\ Len(lm_call.alternatives) = 3
    /\ ValidPositions = {2, 3}
    /\ lm_call.alternatives[2] # lm_call.alternatives[3]
    /\ lm_call.name \in DOMAIN lm_call.before
    /\ lm_call.before[lm_call.name] # lm_call.alternatives[2]
    /\ lm_call.ret = lm_call.alternatives[2]

(***************************************************************************)
(* Properties of Recorder, checked under SpecRecorder.                     *)
(***************************************************************************)
NumRecordCalls ==
    Cardinality({i \in 1..Len(rec_log) : rec_log[i].via = "record_action"})
Exported == heap[export(heap).ref]

\* C18 as stated: the length of Recorder.export() always equals the number of
\* record_action calls made so far.
C18_ExportLengthIsRecordCalls == Len(Exported) = NumRecordCalls

\* C18 as amended: the length of Recorder.export() equals the number of
\* record_action calls made so far plus the number of entries a caller has
\* appended through an exported list, and its entries are in call order with
\* the verb, selector and value of each call.
C18_ExportIsTheCallLog ==
    /\ Len(Exported) = Len(rec_log)
    /\ \A i \in 1..Len(rec_log) : Exported[i] = rec_log[i].entry

C18_Witness ==
    /\ Len(rec_log) = 3
    /\ rec_log[1].via = "record_action"
    /\ rec_log[2].via = "exported.append"
    /\ rec_log[3].via = "record_action"
    /\ rec_log[3].entry = rec_log[2].entry
    /\ Len(Exported) = 3

\* C19: export returns a live view, not a snapshot: the value obtained from
\* export() shows the entries recorded after it was obtained, and an append
\* made through it is in the recorder's own list.
C19_ExportIsLiveView ==
    exported.ref # NoRef => heap[exported.ref] = actions

C19_Witness ==
    /\ exported.ref # NoRef
    /\ exported.seen = 1
    /\ Len(rec_log) = 3
    /\ rec_log[2].via = "record_action"
    /\ rec_log[3].via = "exported.append"
    /\ Len(actions) = 3
    /\ Len(heap[exported.ref]) = 3

\* C20: record_action never raises and never rejects or merges an entry: for
\* every verb, selector and value, the empty string, the value None and an
\* exact repeat of the previous entry included, the list grows by exactly the
\* entry of the call.
C20_RecordAppendsExactlyOne ==
    [][(/\ Len(rec_log') = Len(rec_log) + 1
        /\ rec_log'[Len(rec_log')].via = "record_action")
          => /\ actions' = Append(actions, rec_log'[Len(rec_log')].entry)
             /\ rec_exc' = NoException]_vars

C20_Witness ==
    /\ Len(rec_log) = 2
    /\ rec_log[1].via = "record_action"
    /\ rec_log[2].via = "record_action"
    /\ rec_log[1].entry = Entry("", "", None)
    /\ rec_log[2].entry = Entry("", "", None)
    /\ actions = <<Entry("", "", None), Entry("", "", None)>>
    /\ rec_exc = NoException

(***************************************************************************)
(* Properties of heal_selector against the page, checked under             *)
(* SpecHealProbe.                                                          *)
(***************************************************************************)
\* C11: heal evaluates its candidates through the healing strategy with the
\* page of the caller: heal_selector(name, alternatives) returns what
\* try_alternatives(page, alternatives) returns, a selector or None.
C11_HealDelegatesToTryAlternatives ==
    lm_call.op = "heal_selector" =>
        lm_call.ret = try_alternatives(session.page, lm_call.alternatives).ret

\* C12: heal never raises for one candidate: a candidate whose probe raises is
\* skipped, and heal returns a later candidate that exists on the page, or
\* None; heal_selector as modelled has no exception to raise, so what is left
\* to state is that the selector it returns is not one whose probe raises.
C12_HealSkipsCandidateWhoseProbeRaises ==
    lm_call.op = "heal_selector" =>
        \A i \in 1..Len(lm_call.alternatives) :
            session.page[lm_call.alternatives[i]] = Raises
                => lm_call.ret # lm_call.alternatives[i]

(***************************************************************************)
(* Properties of perform in a session, checked under SpecSession.  In a    *)
(* session nobody calls record_action, so the recorder grows only if       *)
(* perform reports to it.                                                  *)
(***************************************************************************)
\* C13: each attempt of perform uses the selector the registry holds for the
\* name at the time of the attempt, and with no entry for the name the attempt
\* is a failed attempt.
C13_AttemptsResolveFromRegistry ==
    \A i \in 1..Len(trace) :
        IsInvoke(trace[i]) =>
            /\ AttemptSelector(i) = get_selector(locators, session.name)
            /\ session.name \notin DOMAIN locators => IsFailedInvoke(trace[i])

\* C14: in the scenario maxAttempts=3, primary "#a" always failing, candidates
\* <<"#b", "#c">>, "#b" on the page: attempt 1 fails on "#a", healing runs
\* before the next attempt, attempt 2 succeeds on "#b", one probe call is made,
\* the registry ends with "#b" for the name and the recorder holds 2 entries.
C14_HealedSelectorUsedByNextAttempt ==
    (/\ Ended
     /\ stop = 3
     /\ session.selector = "#a"
     /\ session.alternatives = <<"#b", "#c">>
     /\ session.page["#a"] = None
     /\ session.page["#b"] = Element
     /\ \A i \in 1..Len(trace) :
           (IsInvoke(trace[i]) /\ AttemptSelector(i) = "#a")
               => IsFailedInvoke(trace[i]))
        => /\ pc = "returned"
           /\ NumInvocations = 2
           /\ AttemptSelector(1) = "#a"
           /\ Len(ta_out.probes) = 1
           /\ get_selector(locators, session.name) = "#b"
           /\ Len(actions) = 2

\* C15: healing is invoked only after a failed attempt and only with a
\* non-empty candidate list: a step of a perform call that has no failed
\* attempt, or whose caller has no alternatives, makes no probe call and no
\* registry write.
C15_NoHealingWithoutFailureOrCandidates ==
    [][(/\ pc' # pc
        /\ NumFailedInvocations' = 0 \/ session.alternatives = <<>>)
          => /\ locators' = locators
             /\ ta_out' = ta_out]_vars

C15_Witness ==
    /\ pc = "returned"
    /\ Len(trace) = 1
    /\ session.alternatives # <<>>
    /\ session.name \in DOMAIN locators
    /\ locators[session.name] # session.alternatives[1]
    /\ session.page[session.alternatives[1]] = Element

\* C16: every attempt of perform, the final failing one included, is reported
\* to the recorder exactly once: during and after a perform call the recorder
\* has grown by the number of attempts made.
C16_EveryAttemptRecorded ==
    pc # "idle" => Len(actions) = NumInvocations

\* C17: with no candidates, a selector that always fails and maxAttempts=3,
\* perform ends in the failure with attempts=3 and the recorder holds exactly
\* 3 entries.
C17_FailureWithoutCandidatesRecordsThree ==
    (/\ pc = "failed"
     /\ stop = 3
     /\ session.alternatives = <<>>)
        => /\ exc = ActionFailed(3)
           /\ NumInvocations = 3
           /\ Len(actions) = 3

(***************************************************************************)
(* Error handling of BaseAction.perform, checked under SpecPerform.        *)
(***************************************************************************)
\* C21: with RETRY_COUNT = 0 the loop bound is applied as for any other
\* count: _perform is never called, time.sleep is never called, no value is
\* returned and perform ends by raising the failure of an exhausted budget,
\* which reports 0 attempts.
C21_ZeroBudgetNeverInvokes ==
    (pc # "idle" /\ stop = 0) =>
        /\ trace = <<>>
        /\ ret = NoReturn
        /\ pc \in {"raise", "failed"}
        /\ pc = "failed" => exc = ActionFailed(0)

C21_Witness ==
    /\ pc = "failed"
    /\ stop = 0
    /\ RETRY_COUNT = 0
    /\ trace = <<>>
    /\ exc = ActionFailed(0)

\* C22: a perform called with a negative RETRY_COUNT fails without calling
\* _perform and without sleeping, and the exception it raises is of another
\* kind than the failure of an exhausted budget.
C22_NegativeCountIsMisuse ==
    (pc = "failed" /\ stop < 0) =>
        /\ trace = <<>>
        /\ exc.type # ActionFailed(stop).type

\* C23 as stated: the failure of the exhausted budget is the only exception
\* that leaves perform, whatever an attempt raised.
C23_OnlyExhaustionLeavesPerform ==
    /\ pc # "propagated"
    /\ exc # NoException => exc = ActionFailed(stop)

\* C23 as amended: an Exception raised by an attempt is taken by the
\* handler, which sleeps, and the loop goes on until the budget is used up;
\* an exception of _perform that is no Exception leaves perform at once, and
\* so does the ValueError of time.sleep for a negative delay; apart from these
\* two, the failure of the exhausted budget is the only exception that leaves
\* perform.
C23_OnlyUncaughtOrExhaustionLeaves ==
    /\ exc # NoException => pc \in {"failed", "propagated"}
    /\ pc = "failed" =>
          /\ exc = ActionFailed(stop)
          /\ (stop >= 1 => NumFailedInvocations = stop)
    /\ pc = "propagated" =>
          LET last == trace[Len(trace)]
          IN  \/ /\ IsInvoke(last)
                 /\ last.out = RaisesBaseException
                 /\ exc = Uncaught("BaseException")
              \/ /\ IsSleep(last)
                 /\ sleep_raises(last.d)
                 /\ IsFailedInvoke(trace[Len(trace) - 1])
                 /\ exc = Uncaught("ValueError")
    /\ \A i \in 1..Len(trace) :
          /\ IsFailedInvoke(trace[i]) =>
                IF i < Len(trace) THEN IsSleep(trace[i + 1]) ELSE pc = "except"
          /\ (IsInvoke(trace[i]) /\ trace[i].out = RaisesBaseException) =>
                (i = Len(trace) /\ pc = "propagated")
          /\ (IsSleep(trace[i]) /\ ~sleep_raises(trace[i].d)) =>
                IF i < Len(trace) THEN IsInvoke(trace[i + 1])
                ELSE /\ pc \in {"try", "raise", "failed"}
                     /\ pc = "try" => NumInvocations < stop
                     /\ pc \in {"raise", "failed"} => NumInvocations = stop

C23_Witness ==
    /\ pc = "propagated"
    /\ stop = DefaultRetryCount
    /\ Len(trace) = 3
    /\ IsFailedInvoke(trace[1])
    /\ IsSleep(trace[2])
    /\ trace[3].out = RaisesBaseException
    /\ exc = Uncaught("BaseException")

(***************************************************************************)
(* Properties of a LocatorManager shared by two streams, checked under     *)
(* SpecStreams.                                                            *)
(***************************************************************************)
BothDone == \A t \in Streams : streams[t].pc = "done"
Written == {streams[t].wrote : t \in Streams} \ {None}

\* C24: when two streams heal or set the same target concurrently, every
\* interleaving ends with the entry of the target equal to the selector
\* stored by one of the two calls, and each heal_selector returns the selector
\* it stored itself (None when it stored none).
C24_ConcurrentWritesNotLost ==
    /\ (BothDone /\ streams[1].name = streams[2].name /\ Written # {})
          => /\ streams[1].name \in DOMAIN locators
             /\ locators[streams[1].name] \in Written
    /\ \A t \in Streams :
          (streams[t].pc = "done" /\ streams[t].op = "heal_selector")
              => streams[t].ret = streams[t].wrote

C24_Witness ==
    /\ BothDone
    /\ streams[1].op = "heal_selector"
    /\ streams[2].op = "heal_selector"
    /\ streams[1].name = streams[2].name
    /\ streams[1].wrote = "#b"
    /\ streams[2].wrote = "#c"
    /\ streams[1].ret = "#b"
    /\ streams[2].ret = "#c"
    /\ locators[streams[1].name] = "#b"

(***************************************************************************)
(* Further properties of LocatorManager, checked under SpecRegistry.       *)
(***************************************************************************)
\* the call is a write to the name that succeeded, and the selector it wrote
Writes(call, name) ==
    /\ call.name = name
    /\ \/ call.op = "update_selector"
       \/ call.op = "heal_selector" /\ call.ret # None
WrittenValue(call) ==
    IF call.op = "update_selector" THEN call.selector ELSE call.ret

\* C25: the registry is a mapping with at most one entry per name and the last
\* write wins: over any sequence of update_selector and heal_selector calls
\* the value get_selector gives for a name changes only by a successful write
\* to that name, and then to the selector of that write.
C25_LastWriteWins ==
    [][/\ locators' \in Dicts
       /\ \A n \in Names :
             get_selector(locators', n) =
                 IF lm_call = NoCall /\ Writes(lm_call', n)
                   THEN WrittenValue(lm_call')
                   ELSE get_selector(locators, n)]_vars

C25_Witness ==
    /\ lm_call.op = "heal_selector"
    /\ lm_call.ret # None
    /\ lm_prev.op = "update_selector"
    /\ lm_prev.name = lm_call.name
    /\ lm_prev.selector # lm_call.ret
    /\ get_selector(locators, lm_call.name) = lm_call.ret

\* C26: update_selector is idempotent: after update_selector(t, s) called
\* twice in a row the dictionary is what it was after the first call.
C26_SetIsIdempotent ==
    (/\ lm_call.op = "update_selector"
     /\ lm_prev.op = "update_selector"
     /\ lm_prev.name = lm_call.name
     /\ lm_prev.selector = lm_call.selector)
        => /\ locators = lm_call.before
           /\ get_selector(locators, lm_call.name) = lm_call.selector

C26_Witness ==
    /\ lm_call.op = "update_selector"
    /\ lm_prev.op = "update_selector"
    /\ lm_prev.name = lm_call.name
    /\ lm_prev.selector = lm_call.selector
    /\ DOMAIN locators = Names
    /\ locators[lm_call.name] = "#c"

\* C27: get_selector has no side effect: the whole dictionary is after the
\* call what it was before, also when the name has no entry; the call then
\* returns None and creates no entry.
C27_GetHasNoSideEffect ==
    lm_call.op = "get_selector" =>
        /\ locators = lm_call.before
        /\ lm_call.name \notin DOMAIN lm_call.before
              => (lm_call.ret = None /\ lm_call.name \notin DOMAIN locators)

C27_Witness ==
    /\ lm_call.op = "get_selector"
    /\ lm_call.name \notin DOMAIN lm_call.before
    /\ lm_call.before # EmptyDict
    /\ lm_call.ret = None
    /\ lm_call.name \notin DOMAIN locators

\* C28: an entry is never deleted: a name that has an entry has one in every
\* later state, whatever get_selector, update_selector and heal_selector
\* calls follow, a heal_selector that finds no valid alternative included.
C28_EntryNeverDeleted ==
    [][DOMAIN locators \subseteq DOMAIN locators']_vars

C28_Witness ==
    /\ lm_call.op = "heal_selector"
    /\ lm_call.alternatives # <<>>
    /\ lm_call.ret = None
    /\ lm_call.name \in DOMAIN lm_call.before
    /\ lm_call.name \in DOMAIN locators
    /\ lm_prev.op = "get_selector"

\* C30: heal_selector validates the alternatives in list order and stops at
\* the first valid one: when alternative i is the first valid one it has made
\* exactly i calls of _is_valid, on alternatives 1..i, and when none is valid
\* it has validated each alternative exactly once.
C30_ValidatesUpToFirstValid ==
    lm_call.op = "heal_selector" =>
        LET n == IF ValidPositions # {} THEN Min(ValidPositions)
                 ELSE Len(lm_call.alternatives)
        IN  /\ Len(lm_call.validated) = n
            /\ \A k \in 1..n : lm_call.validated[k] = lm_call.alternatives[k]

C30_Witness ==
    /\ lm_call.op = "heal_selector"
    /\ Len(lm_call.alternatives) = 3
    /\ ValidPositions = {2}
    /\ lm_call.alternatives[1] = lm_call.alternatives[3]
    /\ lm_call.validated = <<lm_call.alternatives[1], lm_call.alternatives[2]>>

Over == pc \in {"returned", "failed", "propagated"}

\* the outcomes of the attempts made so far, in order
RECURSIVE OutcomesOf(_)
OutcomesOf(tr) ==
    IF tr = <<>> THEN <<>>
    ELSE IF IsInvoke(Head(tr)) THEN <<Head(tr).out>> \o OutcomesOf(Tail(tr))
    ELSE OutcomesOf(Tail(tr))

\* what a perform call whose caller has no candidates does, as a function of
\* the budget n, the delay d and the outcomes of its attempts: lines 12-18
RECURSIVE perform_result(_, _, _, _, _)
perform_result(outs, i, n, d, tr) ==
    IF ~(i < n)
      THEN [pc |-> "failed", trace |-> tr, ret |-> NoReturn, exc |-> ActionFailed(n)]
    ELSE IF i + 1 > Len(outs)
      THEN [pc |-> "running", trace |-> tr, ret |-> NoReturn, exc |-> NoException]
    ELSE LET out == outs[i + 1]
             invoked == Append(tr, InvokeEvent(i + 1, out))
             slept == Append(invoked, SleepEvent(d))
         IN  IF out = Raises
               THEN IF d < 0
                      THEN [pc |-> "propagated", trace |-> slept, ret |-> NoReturn,
                            exc |-> Uncaught("ValueError")]
                      ELSE perform_result(outs, i + 1, n, d, slept)
             ELSE IF out = RaisesBaseException
               THEN [pc |-> "propagated", trace |-> invoked, ret |-> NoReturn,
                     exc |-> Uncaught("BaseException")]
             ELSE [pc |-> "returned", trace |-> invoked, ret |-> out,
                   exc |-> NoException]

HealingFindsNothing ==
    /\ session.alternatives # <<>>
    /\ try_alternatives(session.page, session.alternatives).ret = None

C32_ReportedCountIsInvocations ==
    (pc = "failed" /\ stop >= 0) => exc = ActionFailed(NumInvocations)

(***************************************************************************)
(* ClickAction and TypeAction on a page, checked under SpecActions.        *)
(***************************************************************************)
IsAttemptStep ==
    /\ Len(trace') = Len(trace) + 1
    /\ IsInvoke(trace'[Len(trace')])

\* C33: every attempt of perform passes the arguments of the caller on
\* unchanged: an attempt of a ClickAction makes exactly one call
\* page.click(selector), an attempt of a TypeAction exactly one call
\* page.fill(selector, text), with the arguments perform was called with, the
\* same on every retry; nothing else calls the page, and each call is added
\* at the end of the calls made so far, so the calls of successive perform
\* calls stand in the order of those perform calls.
C33_AttemptsPassArgumentsThrough ==
    [][/\ IsAttemptStep =>
             /\ action_class = "ClickAction" =>
                   page_calls' = Append(page_calls, [op |-> "click", args |-> args])
             /\ action_class = "TypeAction" =>
                   page_calls' = Append(page_calls, [op |-> "fill", args |-> args])
       /\ ~IsAttemptStep => page_calls' = page_calls
       /\ (pc # "idle" /\ pc' # "idle") => (args' = args /\ action_class' = action_class)]_vars

C33_Witness ==
    /\ pc = "returned"
    /\ action_class = "ClickAction"
    /\ page_calls = <<[op |-> "fill", args |-> <<"#a", "testuser">>],
                      [op |-> "fill", args |-> <<"#a", "testuser">>],
                      [op |-> "click", args |-> <<"#b">>]>>

(***************************************************************************)
(* Further properties of Recorder, checked under SpecRecorder.             *)
(***************************************************************************)
\* C34: the recorded sequence is append-only: over every step, a
\* record_action call, an export call and an append through the exported
\* list included, the entries already present keep their position and their
\* verb, selector and value, and none is removed.
C34_RecordedSequenceAppendOnly ==
    [][/\ Len(actions') >= Len(actions)
       /\ \A i \in 1..Len(actions) : actions'[i] = actions[i]
       /\ exported' # exported => actions' = actions]_vars

C34_Witness ==
    /\ Len(actions) = 3
    /\ exported.ref # NoRef
    /\ exported.seen = 2
    /\ rec_log[3].via = "record_action"
    /\ actions[1] # actions[2]
    /\ actions[3] = actions[1]

(***************************************************************************)
(* The failure a caller sees, checked under SpecSession.                   *)
(***************************************************************************)
\* C35: the failure of an exhausted perform depends on the attempt budget
\* only: it is the exception made from the budget and nothing else, whatever
\* the attempts raised and whether or not heal_selector was called and wrote
\* the registry before the call.
C35_FailureDependsOnBudgetOnly ==
    pc = "failed" =>
        /\ exc = [type |-> "Exception", attempts |-> stop]
        /\ DOMAIN exc = {"type", "attempts"}
        /\ ret = NoReturn

C35_Witness ==
    /\ pc = "failed"
    /\ stop = DefaultRetryCount
    /\ lm_prev.op = "heal_selector"
    /\ session.name \in DOMAIN locators
    /\ exc = ActionFailed(DefaultRetryCount)

(***************************************************************************)
(* heal_selector as shipped, checked under SpecHealProbe.                  *)
(***************************************************************************)
\* C36: with _is_valid as shipped, heal_selector with a non-empty list of
\* alternatives returns the first alternative after validating it alone and
\* makes it the entry of the name, whatever the page holds and whatever the
\* entry was.
C36_ShippedHealTakesFirstAlternative ==
    (lm_call.op = "heal_selector" /\ lm_call.alternatives # <<>>) =>
        /\ lm_call.ret = lm_call.alternatives[1]
        /\ lm_call.validated = <<lm_call.alternatives[1]>>
        /\ locators = update_selector(lm_call.before, lm_call.name,
                                      lm_call.alternatives[1])

C36_Witness ==
    /\ lm_call.op = "heal_selector"
    /\ Len(lm_call.alternatives) = 2
    /\ session.page[lm_call.alternatives[1]] = None
    /\ session.page[lm_call.alternatives[2]] = Element
    /\ lm_call.name \in DOMAIN lm_call.before
    /\ lm_call.before[lm_call.name] = lm_call.alternatives[2]
    /\ lm_call.ret = lm_call.alternatives[1]

(***************************************************************************)
(* The frame of the LocatorManager writes, checked under SpecRegistry.     *)
(***************************************************************************)
\* C37: update_selector and heal_selector on one name leave the entry of
\* every other name as it was, present or absent, whether the heal finds a
\* valid alternative or not.
C37_OtherNamesUntouched ==
    lm_call.op \in {"update_selector", "heal_selector"} =>
        \A u \in Names \ {lm_call.name} :
            /\ (u \in DOMAIN locators) <=> (u \in DOMAIN lm_call.before)
            /\ get_selector(locators, u) = get_selector(lm_call.before, u)

C37_Witness ==
    /\ lm_call.op = "heal_selector"
    /\ lm_call.name = "submit"
    /\ lm_call.ret = "#b"
    /\ "submit" \notin DOMAIN lm_call.before
    /\ "username" \in DOMAIN lm_call.before
    /\ locators["username"] = "#c"
    /\ locators["submit"] = "#b"

(***************************************************************************)
(* perform on a BaseAction, checked under SpecBaseAction.                  *)
(***************************************************************************)
\* C38: perform on an action without its own _perform retries the
\* NotImplementedError like any failed attempt: every attempt raises and is
\* taken by the handler, perform never returns a value, the caller never gets
\* the NotImplementedError, and with a delay that time.sleep accepts the call
\* makes RETRY_COUNT attempts, sleeps after each and ends in "Action failed
\* after RETRY_COUNT attempts".
C38_NotImplementedIsRetried ==
    action_class = "BaseAction" =>
        /\ \A i \in 1..Len(trace) : IsInvoke(trace[i]) => IsFailedInvoke(trace[i])
        /\ pc # "returned"
        /\ exc \in {NoException, ActionFailed(stop), Uncaught("ValueError")}
        /\ pc \in {"try", "raise", "failed"} => NumSleeps = NumInvocations
        /\ (Over /\ RETRY_DELAY >= 0) =>
              /\ pc = "failed"
              /\ exc = ActionFailed(RETRY_COUNT)
              /\ stop >= 1 => (NumInvocations = stop /\ NumSleeps = stop)

C38_Witness ==
    /\ action_class = "BaseAction"
    /\ pc = "failed"
    /\ stop = DefaultRetryCount
    /\ NumInvocations = DefaultRetryCount
    /\ NumSleeps = DefaultRetryCount
    /\ exc = ActionFailed(DefaultRetryCount)

(***************************************************************************)
(* Termination of perform, checked under SpecPerformFair.                  *)
(***************************************************************************)
Running == pc \in {"try", "except", "raise"}

\* C39: every perform call terminates: it never makes more attempts than the
\* budget, and provided each call of _perform and of time.sleep comes back, a
\* running call reaches its return, its failure or the exception that passes
\* through it, for every pattern of successes and failures of the attempts.
C39_PerformTerminates ==
    /\ [](NumInvocations <= IF stop > 0 THEN stop ELSE 0)
    /\ Running ~> Over

C39_Witness ==
    /\ pc = "failed"
    /\ stop = MaxRetryCount
    /\ NumInvocations = MaxRetryCount
    /\ NumSleeps = MaxRetryCount

====
